---- MODULE Spec2Model ----
(***************************************************************************)
(* The adaptive multi-endpoint polling coordinator of the Google Weather   *)
(* integration (custom_components/google_weather/coordinator.py).          *)
(*                                                                         *)
(* One GoogleWeatherCoordinator: its configuration (intervals, night       *)
(* window), its per-endpoint last_update stamps, its endpoint_data cache,  *)
(* and one run of _async_update_data (a "tick") at a time: the staleness   *)
(* selection on the event loop, _fetch_weather_data in the executor (one   *)
(* step per HTTP request), and the resumption that reconciles the cache or *)
(* handles the exception.  Time is in seconds; a wall clock `now` counts   *)
(* from midnight of the first day.                                         *)
(*                                                                         *)
(* Around the coordinator: the config entries of the integration and the   *)
(* instance registry hass.data[DOMAIN] (__init__.py), and the config flow  *)
(* that shows the API usage estimate (config_flow.py).                     *)
(***************************************************************************)
EXTENDS Integers, Sequences, FiniteSets, TLC

VARIABLES
    night_start,          \* self.night_start: a time string, as a tuple of characters
    night_end,            \* self.night_end
    intervals,            \* self.intervals[endpoint]["day" | "night"], minutes
    now,                  \* dt_util.now(), seconds since 00:00 of the first day
    last_update,          \* self.last_update[endpoint]: None or a time
    endpoint_data,        \* self.endpoint_data: cache key -> payload
    pc,                   \* where the tick is: "idle", "executor", "resume"
    endpoints_to_update,  \* the local endpoints_to_update of the running tick
    updated_data,         \* the local updated_data of _fetch_weather_data
    fetch_pos,            \* the next endpoint block of _fetch_weather_data (1..4)
    fetch_exc,            \* the exception _fetch_weather_data left with ("" = returned)
    responses,            \* what the API answered to each request of the tick
    night_mode,           \* the "night mode: %s" the last selection logged (line 166)
    result,               \* how the last tick ended and what it returned
    ticks_ok,             \* whether a tick has run through lines 176-182
    hass_data,            \* hass.data[DOMAIN]: its keys (entry ids) in insertion order
    entry_state,          \* where each config entry is between setup and unload
    flow,                 \* the config flow: its step and what it has stored
    services,             \* whether get_forecast is registered, and its last call
    token,                \* what async_ensure_token_valid did in the running tick
    answered_at           \* per endpoint: when a request was last answered well

vars == <<night_start, night_end, intervals, now, last_update, endpoint_data, pc,
          endpoints_to_update, updated_data, fetch_pos, fetch_exc, responses,
          night_mode, result, ticks_ok, hass_data, entry_state, flow, services,
          token, answered_at>>

config == <<night_start, night_end, intervals>>

tick_locals == <<endpoints_to_update, updated_data, fetch_pos, fetch_exc, responses>>

integration == <<hass_data, entry_state, flow, services>>

----------------------------------------------------------------------------
(* Endpoints and cache keys                                                *)

ENDPOINT_CURRENT == "current"
ENDPOINT_DAILY == "daily"
ENDPOINT_HOURLY == "hourly"
ENDPOINT_ALERTS == "alerts"

\* The order of the list in _async_update_data and of the blocks in
\* _fetch_weather_data.
EndpointOrder == <<ENDPOINT_CURRENT, ENDPOINT_DAILY, ENDPOINT_HOURLY, ENDPOINT_ALERTS>>

Endpoints == {EndpointOrder[i] : i \in 1..Len(EndpointOrder)}

\* The key of updated_data / endpoint_data each block of _fetch_weather_data writes.
CacheKey(e) ==
    CASE e = ENDPOINT_CURRENT -> "current"
      [] e = ENDPOINT_DAILY -> "daily_forecast"
      [] e = ENDPOINT_HOURLY -> "hourly_forecast"
      [] e = ENDPOINT_ALERTS -> "alerts"

\* The key of the response document each block reads with .get(key, []).
ResponseKey(e) ==
    CASE e = ENDPOINT_CURRENT -> ""
      [] e = ENDPOINT_DAILY -> "forecastDays"
      [] e = ENDPOINT_HOURLY -> "forecastHours"
      [] e = ENDPOINT_ALERTS -> "weatherAlerts"

None == -1

EmptyDict == [k \in {} |-> <<>>]

----------------------------------------------------------------------------
(* Time                                                                    *)

SecondsPerMinute == 60

SecondsPerDay == 24 * 60 * SecondsPerMinute

\* datetime.time(): the time of day of a wall-clock instant.
TimeOfDay(t) == t % SecondsPerDay

HM(h, m) == (h * 60 + m) * SecondsPerMinute

----------------------------------------------------------------------------
(* Parsing of the night window: map(int, s.split(":")) and datetime.time   *)

DigitChars == <<"0", "1", "2", "3", "4", "5", "6", "7", "8", "9">>

IsDigit(c) == \E i \in 1..10 : DigitChars[i] = c

DigitValue(c) == (CHOOSE i \in 1..10 : DigitChars[i] = c) - 1

\* str.split(":"): the fields between the separators (always at least one).
RECURSIVE Split(_)
Split(s) ==
    IF \A i \in 1..Len(s) : s[i] # ":"
    THEN <<s>>
    ELSE LET i == CHOOSE j \in 1..Len(s) :
                      s[j] = ":" /\ \A k \in 1..(j - 1) : s[k] # ":"
         IN <<SubSeq(s, 1, i - 1)>> \o Split(SubSeq(s, i + 1, Len(s)))

\* The digits of an int() literal after an optional sign.
Unsigned(f) == IF f # <<>> /\ f[1] \in {"+", "-"} THEN Tail(f) ELSE f

\* int(f) raises ValueError: no digits, or a character that is no digit.
\* (The time strings of this model hold no whitespace and no underscore.)
IntRaises(f) == Unsigned(f) = <<>> \/ \E i \in 1..Len(Unsigned(f)) : ~IsDigit(Unsigned(f)[i])

RECURSIVE DigitsValue(_)
DigitsValue(d) ==
    IF d = <<>> THEN 0
    ELSE 10 * DigitsValue(SubSeq(d, 1, Len(d) - 1)) + DigitValue(d[Len(d)])

IntValue(f) == IF f # <<>> /\ f[1] = "-" THEN 0 - DigitsValue(Unsigned(f)) ELSE DigitsValue(Unsigned(f))

\* `a, b = map(int, s.split(":"))` raises ValueError: not two fields, or a
\* field int() rejects.
UnpackRaises(s) ==
    \/ Len(Split(s)) # 2
    \/ IntRaises(Split(s)[1])
    \/ IntRaises(Split(s)[2])

\* datetime.time(hour, minute) raises ValueError outside 0..23 and 0..59.
TimeRaises(s) ==
    \/ IntValue(Split(s)[1]) \notin 0..23
    \/ IntValue(Split(s)[2]) \notin 0..59

\* dt_time(hour, minute) as seconds since midnight.
ParsedTime(s) == HM(IntValue(Split(s)[1]), IntValue(Split(s)[2]))

----------------------------------------------------------------------------
(* Time-of-day classifier and staleness evaluator                          *)

\* _is_night_time raises ValueError (lines 117-123).
is_night_time_raises ==
    \/ UnpackRaises(night_start)
    \/ UnpackRaises(night_end)
    \/ TimeRaises(night_start)
    \/ TimeRaises(night_end)

\* A comparison without the branch for a window that crosses midnight.
night_at_without_crossing(t) ==
    ParsedTime(night_start) <= t /\ t < ParsedTime(night_end)

\* The comparison of lines 126-129 for a time of day t, when the window parses.
night_at(t) ==
    LET start_time == ParsedTime(night_start)
        end_time == ParsedTime(night_end)
    IN IF start_time < end_time
       THEN start_time <= t /\ t < end_time
       ELSE t >= start_time \/ t < end_time

\* _is_night_time, when it does not raise: the comparison at dt_util.now().time().
is_night_time == night_at(TimeOfDay(now))

\* A selection that classifies the time of the last fetch instead of the
\* time of the tick.
interval_minutes_of_last_fetch(e) ==
    intervals[e][IF night_at(TimeOfDay(last_update[e])) THEN "night" ELSE "day"]

\* A selection that waits for the day interval and the night interval
\* together.
interval_minutes_adding_both(e) == intervals[e]["day"] + intervals[e]["night"]

\* The interval line 141 picks, in minutes.
interval_minutes(e) == intervals[e][IF is_night_time THEN "night" ELSE "day"]

\* Line 144-145: (now - last_update).total_seconds() / 60 >= interval_minutes,
\* with the division by 60 cleared (both sides are exact for these ranges).
time_since_update_reached(e, minutes) ==
    (now - last_update[e]) >= minutes * SecondsPerMinute

\* A staleness check that classifies the time before it tests for None.
should_update_endpoint_raises_before_none(e) == is_night_time_raises

\* _should_update_endpoint raises: only past the `last_update is None` return.
should_update_endpoint_raises(e) == last_update[e] # None /\ is_night_time_raises

\* A staleness check that finds every endpoint due at every tick.
should_update_endpoint_always_due(e) == TRUE

\* _should_update_endpoint, when it does not raise.
should_update_endpoint(e) ==
    IF last_update[e] = None
    THEN TRUE
    ELSE time_since_update_reached(e, interval_minutes(e))

----------------------------------------------------------------------------
(* The weather API as the coordinator sees it                              *)

HTTP_OK == 200
HTTP_UNAUTHORIZED == 401
HTTP_FORBIDDEN == 403
HTTP_NOT_FOUND == 404
HTTP_SERVER_ERROR == 500

StatusCodes == {HTTP_OK, HTTP_UNAUTHORIZED, HTTP_FORBIDDEN, HTTP_NOT_FOUND, HTTP_SERVER_ERROR}

\* Response.raise_for_status raises HTTPError for 4xx and 5xx.
raise_for_status_raises(status) == 400 <= status /\ status < 600

\* The JSON objects a 200 answer of each endpoint may carry: the second
\* forecast / alert document lacks the key the coordinator reads.
Documents(e) ==
    CASE e = ENDPOINT_CURRENT ->
           {[temperature |-> <<"t1">>], [temperature |-> <<"t2">>]}
      [] e = ENDPOINT_DAILY ->
           {[forecastDays |-> <<"d1">>], [timeZone |-> <<"tz">>]}
      [] e = ENDPOINT_HOURLY ->
           {[forecastHours |-> <<"h1">>]}
      [] e = ENDPOINT_ALERTS ->
           {[weatherAlerts |-> <<"a1">>], [regionCode |-> <<"rc">>]}

NoDocument == [k \in {} |-> <<>>]

\* One answer to requests.get: a transport exception (exc), or a response
\* with a status and, for 200, a JSON body that is an object (doc) or not.
Answer(exc, status, is_object, doc) ==
    [exc |-> exc, status |-> status, is_object |-> is_object, doc |-> doc]

NoRequest == Answer("none", 0, FALSE, NoDocument)

Answers(e) ==
    {Answer("", HTTP_OK, TRUE, d) : d \in Documents(e)}
    \cup {Answer("", s, FALSE, NoDocument) : s \in StatusCodes \ {HTTP_OK}}
    \cup {Answer("Timeout", 0, FALSE, NoDocument)}
    \cup (IF e = ENDPOINT_CURRENT THEN {} ELSE {Answer("", HTTP_OK, FALSE, NoDocument)})

\* dict.get(key, []).
Get(doc, key) == IF key \in DOMAIN doc THEN doc[key] ELSE <<>>

\* What a block of _fetch_weather_data stores for a 200 answer with an object body.
Payload(e, a) == IF e = ENDPOINT_CURRENT THEN a.doc ELSE Get(a.doc, ResponseKey(e))

\* dict.update / item assignment: d with key k set to v.
DictSet(d, k, v) == [x \in DOMAIN d \cup {k} |-> IF x = k THEN v ELSE d[x]]

\* An assignment of the fetched dict in place of dict.update.
DictUpdate_replacing(d, other) == other

\* dict.update(other).
DictUpdate(d, other) ==
    [x \in DOMAIN d \cup DOMAIN other |-> IF x \in DOMAIN other THEN other[x] ELSE d[x]]

----------------------------------------------------------------------------
(* Configurations and clock of the model                                   *)

\* Time strings the options form accepts (it takes any string).
T_22_00 == <<"2", "2", ":", "0", "0">>
T_06_00 == <<"0", "6", ":", "0", "0">>
T_01_00 == <<"0", "1", ":", "0", "0">>
T_05_00 == <<"0", "5", ":", "0", "0">>
T_12_00 == <<"1", "2", ":", "0", "0">>
T_00_00 == <<"0", "0", ":", "0", "0">>
T_6_00 == <<"6", ":", "0", "0">>
T_24_00 == <<"2", "4", ":", "0", "0">>
T_10pm == <<"1", "0", "p", "m">>
T_22_00_00 == <<"2", "2", ":", "0", "0", ":", "0", "0">>
T_empty == <<>>

\* The default night window (const.py lines 55-56).
DEFAULT_NIGHT_START == T_22_00
DEFAULT_NIGHT_END == T_06_00

\* Night windows <<night_start, night_end>>: the default one, a same-day one,
\* one with start = end, and one whose start does not parse.
Windows ==
    {<<T_22_00, T_06_00>>, <<T_01_00, T_05_00>>, <<T_12_00, T_12_00>>, <<T_10pm, T_06_00>>}

\* Interval pairs in minutes (the forms bound them to 1..1440).
Pair(day, night) == [day |-> day, night |-> night]

IntervalPolicies ==
    {[e \in Endpoints |->
        CASE e = ENDPOINT_CURRENT -> Pair(1, 2)
          [] e = ENDPOINT_DAILY -> Pair(2, 3)
          [] e = ENDPOINT_HOURLY -> Pair(2, 1)
          [] e = ENDPOINT_ALERTS -> Pair(1, 2)],
     [e \in Endpoints |->
        CASE e = ENDPOINT_CURRENT -> Pair(2, 1)
          [] e = ENDPOINT_DAILY -> Pair(1, 1)
          [] e = ENDPOINT_HOURLY -> Pair(3, 2)
          [] e = ENDPOINT_ALERTS -> Pair(1, 3)]}

\* The clock moves in half minutes.
ClockStep == SecondsPerMinute \div 2

\* The wall-clock times at which a coordinator with window w is constructed:
\* one minute before a boundary of the window, for the default window also
\* one minute before midnight, and for 01:00-05:00 a minute and a half
\* before its end (an endpoint with a one-minute night interval is then due
\* again before the night ends).
StartTimesOf(w) ==
    CASE w = <<T_22_00, T_06_00>> -> {HM(21, 59), HM(23, 59)}
      [] w = <<T_01_00, T_05_00>> -> {HM(4, 58) + ClockStep}
      [] w = <<T_12_00, T_12_00>> -> {HM(11, 59)}
      [] OTHER -> {HM(21, 59)}

StartTimes == UNION {StartTimesOf(w) : w \in Windows}

\* How many clock steps after construction the model follows the coordinator.
MaxClockSteps == 5

----------------------------------------------------------------------------
(* Config entries and the config flow                                      *)

\* The config entries of the integration.  The coordinator variables of this
\* module are those of the coordinator of Entry; of the coordinators of the
\* other entries only the outcome of the first refresh is followed.
EntryIds == {"entry_1", "entry_2"}

Entry == "entry_1"

\* No config flow is open.
NoFlow == [step |-> "none"]

\* The get_forecast service has not been called.
NoCall == [kind |-> "none"]

\* The service is not registered and was never called.
NoServices == [registered |-> FALSE, call |-> NoCall]

\* async_ensure_token_valid has not been awaited in the running tick.
NoToken == ""

\* The surroundings of a coordinator that is followed by itself, from its
\* construction in async_setup_entry (line 37) on: the registry and the
\* entries stay as they are at that line, and no config flow is open.
CoordinatorAlone ==
    /\ hass_data = <<>>
    /\ entry_state = [id \in EntryIds |-> IF id = Entry THEN "first_refresh" ELSE "not_loaded"]
    /\ flow = NoFlow
    /\ services = NoServices

----------------------------------------------------------------------------
(* State after GoogleWeatherCoordinator.__init__                           *)

NoSelection == [e \in Endpoints |-> FALSE]

NoResponses == [e \in Endpoints |-> NoRequest]

NoResult == [kind |-> "none", data |-> EmptyDict]

Returned(data) == [kind |-> "returned", data |-> data]

\* raise UpdateFailed(...) out of _async_update_data.
RaisedUpdateFailed == [kind |-> "raised", data |-> EmptyDict]

\* No request has been answered yet.
NeverAnswered == [e \in Endpoints |-> None]

Init ==
    /\ \E w \in Windows : night_start = w[1] /\ night_end = w[2] /\ now \in StartTimesOf(w)
    /\ intervals \in IntervalPolicies
    /\ last_update = [e \in Endpoints |-> None]
    /\ endpoint_data = EmptyDict
    /\ pc = "idle"
    /\ endpoints_to_update = NoSelection
    /\ updated_data = EmptyDict
    /\ fetch_pos = 1
    /\ fetch_exc = ""
    /\ responses = NoResponses
    /\ night_mode = ""
    /\ result = NoResult
    /\ ticks_ok = FALSE
    /\ token = NoToken
    /\ answered_at = NeverAnswered
    /\ CoordinatorAlone

----------------------------------------------------------------------------
(* _async_update_data                                                      *)

\* An except clause without the fallback to the cache.
except_handler_always_raises == RaisedUpdateFailed

\* An except clause that returns the cache without testing it.
except_handler_returns_cache == Returned(endpoint_data)

\* An except clause that tests the dict of the failed fetch, not the cache.
except_handler_tests_updated_data ==
    IF DOMAIN updated_data # {} THEN Returned(endpoint_data) ELSE RaisedUpdateFailed

\* The except clause of _async_update_data (lines 184-190): the cache when
\* it is non-empty, else UpdateFailed.
except_handler == IF DOMAIN endpoint_data # {} THEN Returned(endpoint_data) ELSE RaisedUpdateFailed

\* Lines 150-167 up to the await: the staleness selection.  It ends the tick
\* when nothing is due (line 159) or when _is_night_time raises (lines 152,
\* 166); else it hands the selection to the executor.
async_update_data_select ==
    /\ pc = "idle"
    /\ updated_data' = EmptyDict
    /\ fetch_pos' = 1
    /\ responses' = NoResponses
    /\ UNCHANGED <<config, now, last_update, endpoint_data, ticks_ok, integration,
                   token, answered_at>>
    /\ IF \E e \in Endpoints : should_update_endpoint_raises(e)
       THEN /\ endpoints_to_update' = NoSelection
            /\ fetch_exc' = "ValueError"
            /\ result' = except_handler
            /\ pc' = "idle"
            /\ UNCHANGED night_mode
       ELSE /\ endpoints_to_update' = [e \in Endpoints |-> should_update_endpoint(e)]
            /\ IF \A e \in Endpoints : ~should_update_endpoint(e)
               THEN /\ fetch_exc' = ""
                    /\ result' = Returned(endpoint_data)
                    /\ pc' = "idle"
                    /\ UNCHANGED night_mode
               ELSE IF is_night_time_raises
                    THEN /\ fetch_exc' = "ValueError"
                         /\ result' = except_handler
                         /\ pc' = "idle"
                         /\ UNCHANGED night_mode
                    ELSE /\ fetch_exc' = ""
                         /\ result' = NoResult
                         /\ pc' = "executor"
                         /\ night_mode' = IF is_night_time THEN "True" ELSE "False"

----------------------------------------------------------------------------
(* _fetch_weather_data, in the executor                                    *)

\* Blocks that are entered whatever the selection holds.
NextBlock_ignoring_selection(from) == IF from <= Len(EndpointOrder) THEN from ELSE 0

\* The index of the next block of _fetch_weather_data whose `if` is taken,
\* from block `from` on; 0 when there is none.
NextBlock(from) ==
    IF \E i \in from..Len(EndpointOrder) : endpoints_to_update[EndpointOrder[i]]
    THEN CHOOSE i \in from..Len(EndpointOrder) :
             /\ endpoints_to_update[EndpointOrder[i]]
             /\ \A j \in from..(i - 1) : ~endpoints_to_update[EndpointOrder[j]]
    ELSE 0

\* Blocks without the 404 clause of the alerts block.
BlockException_without_404_clause(e, a) ==
    IF a.exc # ""
    THEN "UpdateFailed"
    ELSE IF raise_for_status_raises(a.status)
         THEN "UpdateFailed"
         ELSE IF a.is_object THEN "" ELSE "AttributeError"

\* Blocks whose 404 clause also takes 401 and 403, in every block.
BlockException_tolerating_credentials(e, a) ==
    IF a.exc # ""
    THEN "UpdateFailed"
    ELSE IF raise_for_status_raises(a.status)
         THEN IF a.status \in {HTTP_NOT_FOUND, HTTP_UNAUTHORIZED, HTTP_FORBIDDEN}
              THEN ""
              ELSE "UpdateFailed"
         ELSE IF a.is_object THEN "" ELSE "AttributeError"

\* The exception one block leaves _fetch_weather_data with for answer a, ""
\* when the block completes: transport exceptions and HTTP errors leave as
\* UpdateFailed (lines 284-291), except the 404 of the alerts block (lines
\* 270-277); .get on a body that is no object is an AttributeError no
\* clause catches.
BlockException(e, a) ==
    IF a.exc # ""
    THEN "UpdateFailed"
    ELSE IF raise_for_status_raises(a.status)
         THEN IF e = ENDPOINT_ALERTS /\ a.status = HTTP_NOT_FOUND
              THEN ""
              ELSE "UpdateFailed"
         ELSE IF a.is_object THEN "" ELSE "AttributeError"

\* What a completing block stores under its key.
BlockPayload(e, a) ==
    IF raise_for_status_raises(a.status) THEN <<>> ELSE Payload(e, a)

\* A block that stores its payload in self.endpoint_data from the executor
\* thread, before the tick is resumed.
fetch_weather_data_block_writing_cache(e, a) ==
    /\ pc = "executor"
    /\ NextBlock(fetch_pos) # 0
    /\ e = EndpointOrder[NextBlock(fetch_pos)]
    /\ responses' = [responses EXCEPT ![e] = a]
    /\ fetch_exc' = BlockException(e, a)
    /\ IF BlockException(e, a) # ""
       THEN /\ pc' = "resume"
            /\ UNCHANGED <<updated_data, fetch_pos, endpoint_data>>
       ELSE /\ updated_data' = DictSet(updated_data, CacheKey(e), BlockPayload(e, a))
            /\ endpoint_data' = DictSet(endpoint_data, CacheKey(e), BlockPayload(e, a))
            /\ fetch_pos' = NextBlock(fetch_pos) + 1
            /\ pc' = IF NextBlock(NextBlock(fetch_pos) + 1) = 0 THEN "resume" ELSE "executor"
    /\ UNCHANGED <<config, now, last_update, endpoints_to_update,
                   night_mode, result, ticks_ok, integration, token>>

\* One block of _fetch_weather_data (lines 215-282): the request of the next
\* due endpoint and what the block does with the answer; past the last due
\* block the function returns updated_data (line 282).
fetch_weather_data_block(e, a) ==
    /\ pc = "executor"
    /\ NextBlock(fetch_pos) # 0
    /\ e = EndpointOrder[NextBlock(fetch_pos)]
    /\ responses' = [responses EXCEPT ![e] = a]
    /\ fetch_exc' = BlockException(e, a)
    /\ IF BlockException(e, a) # ""
       THEN /\ pc' = "resume"
            /\ UNCHANGED <<updated_data, fetch_pos>>
       ELSE /\ updated_data' = DictSet(updated_data, CacheKey(e), BlockPayload(e, a))
            /\ fetch_pos' = NextBlock(fetch_pos) + 1
            /\ pc' = IF NextBlock(NextBlock(fetch_pos) + 1) = 0 THEN "resume" ELSE "executor"
    /\ UNCHANGED <<config, now, last_update, endpoint_data, endpoints_to_update,
                   night_mode, result, ticks_ok, integration, token>>

\* A resumption that stamps the selected endpoints whether the fetch
\* returned or raised.
async_update_data_resume_stamping_failures ==
    /\ pc = "resume"
    /\ pc' = "idle"
    /\ last_update' = [e \in Endpoints |->
                          IF endpoints_to_update[e] THEN now ELSE last_update[e]]
    /\ IF fetch_exc = ""
       THEN /\ endpoint_data' = DictUpdate(endpoint_data, updated_data)
            /\ result' = Returned(endpoint_data')
            /\ ticks_ok' = TRUE
       ELSE /\ result' = except_handler
            /\ UNCHANGED <<endpoint_data, ticks_ok>>
    /\ UNCHANGED <<config, now, tick_locals, night_mode, integration, token, answered_at>>

\* A resumption that, when the fetch raised, forgets the stamps of the
\* endpoints the tick had selected.
async_update_data_resume_forgetting_failed ==
    /\ pc = "resume"
    /\ pc' = "idle"
    /\ IF fetch_exc = ""
       THEN /\ endpoint_data' = DictUpdate(endpoint_data, updated_data)
            /\ last_update' = [e \in Endpoints |->
                                  IF endpoints_to_update[e] THEN now ELSE last_update[e]]
            /\ result' = Returned(endpoint_data')
            /\ ticks_ok' = TRUE
       ELSE /\ result' = except_handler
            /\ last_update' = [e \in Endpoints |->
                                  IF endpoints_to_update[e] THEN None ELSE last_update[e]]
            /\ UNCHANGED <<endpoint_data, ticks_ok>>
    /\ UNCHANGED <<config, now, tick_locals, night_mode, integration, token, answered_at>>

\* A resumption that, when the fetch raised, still stores and stamps what
\* the blocks before the failing one had fetched.
async_update_data_resume_committing_partial ==
    /\ pc = "resume"
    /\ pc' = "idle"
    /\ endpoint_data' = DictUpdate(endpoint_data, updated_data)
    /\ last_update' = [e \in Endpoints |->
                          IF endpoints_to_update[e] /\ CacheKey(e) \in DOMAIN updated_data
                          THEN now
                          ELSE last_update[e]]
    /\ IF fetch_exc = ""
       THEN /\ result' = Returned(endpoint_data')
            /\ ticks_ok' = TRUE
       ELSE /\ result' = IF DOMAIN endpoint_data' # {}
                         THEN Returned(endpoint_data')
                         ELSE RaisedUpdateFailed
            /\ UNCHANGED ticks_ok
    /\ UNCHANGED <<config, now, tick_locals, night_mode, integration, token, answered_at>>

\* Lines 176-190 after the await: the cache update and the stamps when the
\* fetch returned, the except clause when it raised.
async_update_data_resume ==
    /\ pc = "resume"
    /\ pc' = "idle"
    /\ IF fetch_exc = ""
       THEN /\ endpoint_data' = DictUpdate(endpoint_data, updated_data)
            /\ last_update' = [e \in Endpoints |->
                                  IF endpoints_to_update[e] THEN now ELSE last_update[e]]
            /\ result' = Returned(endpoint_data')
            /\ ticks_ok' = TRUE
       ELSE /\ result' = except_handler
            /\ UNCHANGED <<endpoint_data, last_update, ticks_ok>>
    /\ UNCHANGED <<config, now, tick_locals, night_mode, integration, token, answered_at>>

\* Wall-clock time passes, between ticks and while a tick is suspended in
\* the await of line 170 (the executor reads no clock, so the time a fetch
\* takes is let pass when it has ended).
Advance ==
    /\ pc \in {"idle", "resume"}
    /\ \E s \in StartTimes : s <= now /\ now + ClockStep <= s + MaxClockSteps * ClockStep
    /\ now' = now + ClockStep
    /\ UNCHANGED <<config, last_update, endpoint_data, pc, tick_locals, night_mode,
                   result, ticks_ok, integration, token, answered_at>>

Next ==
    \/ async_update_data_select
    \/ \E e \in Endpoints : \E a \in Answers(e) :
          fetch_weather_data_block(e, a) /\ UNCHANGED answered_at
    \/ async_update_data_resume
    \/ Advance

Spec == Init /\ [][Next]_vars

----------------------------------------------------------------------------
(* The staleness selection over a wide range of configurations and times   *)

\* Night windows of every shape: crossing midnight, same-day, start = end,
\* hours without a leading zero, and strings that do not parse.
EvalWindows ==
    {<<T_22_00, T_06_00>>, <<T_01_00, T_05_00>>, <<T_06_00, T_22_00>>,
     <<T_12_00, T_12_00>>, <<T_00_00, T_00_00>>, <<T_00_00, T_6_00>>,
     <<T_22_00, T_00_00>>, <<T_10pm, T_06_00>>, <<T_22_00, T_24_00>>,
     <<T_22_00_00, T_06_00>>, <<T_22_00, T_empty>>}

\* The intervals of const.py lines 39-52.
DefaultPolicy ==
    [e \in Endpoints |->
        CASE e = ENDPOINT_CURRENT -> Pair(15, 30)
          [] e = ENDPOINT_DAILY -> Pair(30, 60)
          [] e = ENDPOINT_HOURLY -> Pair(20, 60)
          [] e = ENDPOINT_ALERTS -> Pair(15, 30)]

EvalPolicies == IntervalPolicies \cup {DefaultPolicy}

\* Tick times on the second day: half a minute around every boundary of the
\* windows, and times well inside and outside them.
EvalTimes ==
    {SecondsPerDay + HM(h, 0) + d :
        h \in {0, 1, 5, 6, 12, 22}, d \in {0 - ClockStep, 0, ClockStep}}
    \cup {SecondsPerDay + HM(3, 0), SecondsPerDay + HM(23, 30), SecondsPerDay + HM(17, 45)}

\* Ages of the last fetch in seconds: around each interval of the policies.
EvalAges ==
    {0, ClockStep}
    \cup {m * SecondsPerMinute - d :
            m \in {1, 2, 3, 15, 20, 30, 60}, d \in {0, ClockStep}}
    \cup {14 * SecondsPerMinute}

\* A cache as a successful first tick leaves it.
FullCache ==
    [k \in {CacheKey(e) : e \in Endpoints} |->
        CASE k = "current" -> [temperature |-> <<"t1">>]
          [] k = "daily_forecast" -> <<"d1">>
          [] k = "hourly_forecast" -> <<"h1">>
          [] k = "alerts" -> <<>>]

\* A coordinator that was just constructed, or whose first tick succeeded
\* some time ago and whose ticks have failed or not run since (the window
\* of a coordinator with a cache parses: no tick succeeds with one that does
\* not).  The locals and the result of a tick are blank until the selection
\* that is followed from here has run.
InitEval ==
    /\ \E w \in EvalWindows : night_start = w[1] /\ night_end = w[2]
    /\ intervals \in EvalPolicies
    /\ now \in EvalTimes
    /\ \/ /\ last_update = [e \in Endpoints |-> None]
          /\ endpoint_data = EmptyDict
          /\ ticks_ok = FALSE
       \/ /\ ~is_night_time_raises
          /\ \E age \in EvalAges : last_update = [e \in Endpoints |-> now - age]
          /\ endpoint_data = FullCache
          /\ ticks_ok = TRUE
    /\ pc = "idle"
    /\ endpoints_to_update = NoSelection
    /\ updated_data = EmptyDict
    /\ fetch_pos = 1
    /\ fetch_exc = ""
    /\ responses = NoResponses
    /\ night_mode = ""
    /\ result = NoResult
    /\ token = NoToken
    /\ answered_at = NeverAnswered
    /\ CoordinatorAlone

NextEval == async_update_data_select

SpecEval == InitEval /\ [][NextEval]_vars

----------------------------------------------------------------------------
(* Config entries: setup, unload and options update (__init__.py)          *)

\* The keys of hass.data[DOMAIN].
Keys(keys) == {keys[i] : i \in 1..Len(keys)}

\* hass.data[DOMAIN][key] = coordinator (line 42): a new key goes last, a
\* key that is there keeps its place.
KeysSet(keys, k) == IF k \in Keys(keys) THEN keys ELSE Append(keys, k)

\* hass.data[DOMAIN].pop(key) (line 127).
KeysPop(keys, k) == SelectSeq(keys, LAMBDA x : x # k)

\* What an entry stores for the coordinator (entry.data merged with
\* entry.options, coordinator.py lines 65-91): the night window and the
\* intervals.
EntryConfigs ==
    {[night_start |-> w[1], night_end |-> w[2], intervals |-> p] :
        w \in {<<T_22_00, T_06_00>>, <<T_01_00, T_05_00>>}, p \in IntervalPolicies}

\* The configuration the coordinator variables hold.
CurrentConfig ==
    [night_start |-> night_start, night_end |-> night_end, intervals |-> intervals]

\* GoogleWeatherCoordinator.__init__ (lines 53-110) for configuration c: no
\* stamp, an empty cache, no tick run.
coordinator_init(c) ==
    /\ night_start' = c.night_start
    /\ night_end' = c.night_end
    /\ intervals' = c.intervals
    /\ last_update' = [e \in Endpoints |-> None]
    /\ endpoint_data' = EmptyDict
    /\ pc' = "idle"
    /\ endpoints_to_update' = NoSelection
    /\ updated_data' = EmptyDict
    /\ fetch_pos' = 1
    /\ fetch_exc' = ""
    /\ responses' = NoResponses
    /\ night_mode' = ""
    /\ result' = NoResult
    /\ ticks_ok' = FALSE
    /\ token' = NoToken
    /\ answered_at' = NeverAnswered

coordinator_vars ==
    <<config, last_update, endpoint_data, pc, tick_locals, night_mode, result, ticks_ok,
      token, answered_at>>

\* async_setup_entry up to its first await (lines 37-39): the coordinator
\* is constructed from what the entry stores, and its first refresh begins.
async_setup_entry(id) ==
    /\ entry_state[id] \in {"not_loaded", "setup_retry"}
    /\ entry_state' = [entry_state EXCEPT ![id] = "first_refresh"]
    /\ IF id = Entry THEN coordinator_init(CurrentConfig) ELSE UNCHANGED coordinator_vars
    /\ UNCHANGED <<now, hass_data, flow, services>>

\* Lines 39-44: the first refresh has ended.  When it raised,
\* async_config_entry_first_refresh raises ConfigEntryNotReady and the setup
\* ends there, to be retried; else the coordinator goes into the registry
\* and the platforms are set up.  For Entry the outcome is the one of its
\* first tick.
async_setup_entry_refreshed(id, refreshed) ==
    /\ entry_state[id] = "first_refresh"
    /\ id = Entry => (pc = "idle" /\ result.kind # "none"
                      /\ refreshed = (result.kind = "returned"))
    /\ IF refreshed
       THEN /\ hass_data' = KeysSet(hass_data, id)
            /\ entry_state' = [entry_state EXCEPT ![id] = "forwarding"]
       ELSE /\ UNCHANGED hass_data
            /\ entry_state' = [entry_state EXCEPT ![id] = "setup_retry"]
    /\ UNCHANGED <<now, coordinator_vars, flow, services>>

\* Lines 44-82: async_forward_entry_setups has returned or raised.  When
\* it returned, the rest of async_setup_entry runs and registers the
\* get_forecast service (lines 74-80); when it raised, the setup ends at
\* line 44.
async_setup_entry_forwarded(id, forwarded) ==
    /\ entry_state[id] = "forwarding"
    /\ entry_state' = [entry_state EXCEPT ![id] = IF forwarded THEN "loaded" ELSE "setup_error"]
    /\ services' = IF forwarded THEN [services EXCEPT !.registered = TRUE] ELSE services
    /\ UNCHANGED <<now, coordinator_vars, hass_data, flow>>

\* An unload that removes the service whatever is left in the registry.
services_after_unload_always_removing(registry) == [services EXCEPT !.registered = FALSE]

\* Lines 129-131 of async_unload_entry: the service is removed when the
\* registry is left empty.
services_after_unload(registry) ==
    IF registry = <<>> THEN [services EXCEPT !.registered = FALSE] ELSE services

\* An unload that pops the registry whatever async_unload_platforms returned.
async_unload_entry_always_popping(id, unload_ok) ==
    /\ entry_state[id] = "loaded"
    /\ id = Entry => pc = "idle"
    /\ hass_data' = KeysPop(hass_data, id)
    /\ services' = services_after_unload(hass_data')
    /\ entry_state' = [entry_state EXCEPT ![id] = IF unload_ok THEN "not_loaded" ELSE "failed_unload"]
    /\ UNCHANGED <<now, coordinator_vars, flow>>

\* async_unload_entry (lines 124-133), between the ticks of the entry's
\* coordinator.
async_unload_entry(id, unload_ok) ==
    /\ entry_state[id] = "loaded"
    /\ id = Entry => pc = "idle"
    /\ IF unload_ok
       THEN /\ hass_data' = KeysPop(hass_data, id)
            /\ services' = services_after_unload(hass_data')
            /\ entry_state' = [entry_state EXCEPT ![id] = "not_loaded"]
       ELSE /\ UNCHANGED <<hass_data, services>>
            /\ entry_state' = [entry_state EXCEPT ![id] = "failed_unload"]
    /\ UNCHANGED <<now, coordinator_vars, flow>>

\* async_update_options (lines 85-97) after the entry took options c:
\* hass.config_entries.async_reload unloads the entry and, when that
\* succeeded, sets it up again, which constructs a new coordinator (line 37).
async_update_options(id, c, unload_ok) ==
    /\ entry_state[id] = "loaded"
    /\ id = Entry => pc = "idle"
    /\ IF unload_ok
       THEN /\ hass_data' = KeysPop(hass_data, id)
            /\ services' = services_after_unload(hass_data')
            /\ entry_state' = [entry_state EXCEPT ![id] = "first_refresh"]
            /\ IF id = Entry THEN coordinator_init(c) ELSE UNCHANGED coordinator_vars
       ELSE /\ UNCHANGED <<hass_data, services>>
            /\ entry_state' = [entry_state EXCEPT ![id] = "failed_unload"]
            /\ UNCHANGED coordinator_vars
    /\ UNCHANGED <<now, flow>>

\* The coordinator of Entry runs a tick: its first refresh during setup, and
\* the scheduled ticks while the entry is loaded.
TickEnabled ==
    \/ entry_state[Entry] = "loaded"
    \/ entry_state[Entry] = "first_refresh" /\ (pc # "idle" \/ result.kind = "none")

\* The answers followed around the entries: a 200 with one document, and a
\* transport error.
EntryAnswers(e) ==
    {a \in Answers(e) :
        \/ a.exc # ""
        \/ a.status = HTTP_OK /\ a.is_object /\ a.doc = CHOOSE d \in Documents(e) : TRUE}

\* The weather entity each entry's weather platform adds for the
\* coordinator of the entry (weather.py lines 72-82).
EntityIds == {"weather.entry_1", "weather.entry_2"}

EntityOwner(entity_id) == IF entity_id = "weather.entry_1" THEN "entry_1" ELSE "entry_2"

\* The coordinator has no method async_fetch_forecast_on_demand: the call of
\* line 60 raises AttributeError.
ServiceRaised(entity_id, entry_id) ==
    [kind |-> "raised", entity_id |-> entity_id, coordinator |-> entry_id, forecast |-> <<>>]

\* return {"forecast": []} of line 72.
ServiceReturnedEmpty(entity_id) ==
    [kind |-> "returned", entity_id |-> entity_id, coordinator |-> "", forecast |-> <<>>]

\* A call of the get_forecast service for entity_id (lines 50-72): the
\* handler goes to the first coordinator of the registry, whatever the
\* entity, and calls async_fetch_forecast_on_demand on it; with an empty
\* registry it returns an empty forecast.
async_get_forecast(entity_id) ==
    /\ services.registered
    /\ services' = [services EXCEPT !.call = IF hass_data # <<>>
                                             THEN ServiceRaised(entity_id, hass_data[1])
                                             ELSE ServiceReturnedEmpty(entity_id)]
    /\ UNCHANGED <<now, coordinator_vars, hass_data, entry_state, flow>>

InitEntry ==
    /\ night_start = T_22_00
    /\ night_end = T_06_00
    /\ intervals \in IntervalPolicies
    /\ now = HM(21, 59)
    /\ last_update = [e \in Endpoints |-> None]
    /\ endpoint_data = EmptyDict
    /\ pc = "idle"
    /\ endpoints_to_update = NoSelection
    /\ updated_data = EmptyDict
    /\ fetch_pos = 1
    /\ fetch_exc = ""
    /\ responses = NoResponses
    /\ night_mode = ""
    /\ result = NoResult
    /\ ticks_ok = FALSE
    /\ hass_data = <<>>
    /\ entry_state = [id \in EntryIds |-> "not_loaded"]
    /\ flow = NoFlow
    /\ services = NoServices
    /\ token = NoToken
    /\ answered_at = NeverAnswered

NextEntry ==
    \/ TickEnabled /\ async_update_data_select
    \/ TickEnabled /\ \E e \in Endpoints : \E a \in EntryAnswers(e) :
                          fetch_weather_data_block(e, a) /\ UNCHANGED answered_at
    \/ TickEnabled /\ async_update_data_resume
    \/ Advance
    \/ \E id \in EntryIds : async_setup_entry(id)
    \/ \E id \in EntryIds : \E refreshed \in BOOLEAN : async_setup_entry_refreshed(id, refreshed)
    \/ \E id \in EntryIds : \E forwarded \in BOOLEAN : async_setup_entry_forwarded(id, forwarded)
    \/ \E id \in EntryIds : \E unload_ok \in BOOLEAN : async_unload_entry(id, unload_ok)
    \/ \E id \in EntryIds : \E unload_ok \in BOOLEAN :
          \E c \in IF id = Entry THEN EntryConfigs \ {CurrentConfig} ELSE {CurrentConfig} :
             async_update_options(id, c, unload_ok)
    \/ \E entity_id \in EntityIds : async_get_forecast(entity_id)

SpecEntry == InitEntry /\ [][NextEntry]_vars

----------------------------------------------------------------------------
(* The config flow: forecasts, intervals, confirmation (config_flow.py)    *)

\* The free tier the confirmation compares the estimate with (line 336).
FREE_TIER_CALLS == 10000

DAYS_PER_MONTH == 30

\* The default day_hours and night_hours of _calculate_monthly_calls (line 278).
DAY_HOURS == 16

NIGHT_HOURS == 8

MINUTES_PER_HOUR == 60

\* An estimate with the hours of day and night exchanged.
calculate_monthly_calls_exchanging_hours(day_interval, night_interval, day_hours, night_hours) ==
    ((MINUTES_PER_HOUR * night_hours * DAYS_PER_MONTH * night_interval)
        + (MINUTES_PER_HOUR * day_hours * DAYS_PER_MONTH * day_interval))
    \div (day_interval * night_interval)

\* _calculate_monthly_calls (lines 277-288):
\* int(60 / day_interval * day_hours * 30 + 60 / night_interval * night_hours * 30),
\* as the truncated quotient over the common denominator.  The intervals of
\* this model divide 60 into a binary fraction, for which the float
\* arithmetic of lines 282-286 is exact.
calculate_monthly_calls(day_interval, night_interval, day_hours, night_hours) ==
    ((MINUTES_PER_HOUR * day_hours * DAYS_PER_MONTH * night_interval)
        + (MINUTES_PER_HOUR * night_hours * DAYS_PER_MONTH * day_interval))
    \div (day_interval * night_interval)

\* Day and night intervals a user submits for one endpoint.
FlowIntervalPairs == {Pair(15, 30), Pair(30, 60), Pair(20, 60), Pair(1, 1), Pair(60, 120)}

\* self.forecast_data as async_step_forecasts stores it (lines 180-184).
ForecastData(include_hourly, include_alerts) ==
    [include_hourly_forecast |-> include_hourly, include_alerts |-> include_alerts]

\* The endpoints whose intervals the form of async_step_intervals asks for
\* (lines 213-257).
SchemaEndpoints(forecast_data) ==
    {ENDPOINT_CURRENT, ENDPOINT_DAILY}
    \cup (IF forecast_data.include_hourly_forecast THEN {ENDPOINT_HOURLY} ELSE {})
    \cup (IF forecast_data.include_alerts THEN {ENDPOINT_ALERTS} ELSE {})

\* self.interval_data.get(key, DEFAULT) for both keys of endpoint e.
IntervalOf(interval_data, e) ==
    IF e \in DOMAIN interval_data THEN interval_data[e] ELSE DefaultPolicy[e]

\* The calls of one endpoint in the estimate of async_step_confirm (lines
\* 309-333): hourly and alerts count only when they are enabled.
EndpointCalls(forecast_data, interval_data, e) ==
    IF \/ e = ENDPOINT_HOURLY /\ ~forecast_data.include_hourly_forecast
       \/ e = ENDPOINT_ALERTS /\ ~forecast_data.include_alerts
    THEN 0
    ELSE calculate_monthly_calls(IntervalOf(interval_data, e).day,
                                 IntervalOf(interval_data, e).night,
                                 DAY_HOURS, NIGHT_HOURS)

\* The numbers of the usage summary (lines 309-341).
UsageSummary(forecast_data, interval_data) ==
    LET calls == [e \in Endpoints |-> EndpointCalls(forecast_data, interval_data, e)]
        total_calls == calls[ENDPOINT_CURRENT] + calls[ENDPOINT_DAILY]
                       + calls[ENDPOINT_HOURLY] + calls[ENDPOINT_ALERTS]
    IN [calls |-> calls,
        total_calls |-> total_calls,
        headroom |-> FREE_TIER_CALLS - total_calls,
        within_free_tier |-> total_calls <= FREE_TIER_CALLS]

NoUsage == [calls |-> [e \in Endpoints |-> 0], total_calls |-> 0, headroom |-> 0,
            within_free_tier |-> FALSE]

\* self.api_key before a key was accepted (line 64).
NoApiKey == "None"

\* No test request has been made.
NoTestAnswer == Answer("none", 0, FALSE, NoDocument)

HTTP_BAD_REQUEST == 400

\* The flow as constructed, with the form of its first step open (lines
\* 62-67).
FlowAtUser ==
    [step |-> "user", errors |-> EmptyDict, test_answer |-> NoTestAnswer,
     api_key |-> NoApiKey, user_data |-> EmptyDict, forecast_data |-> EmptyDict,
     interval_data |-> EmptyDict, usage |-> NoUsage]

\* The API keys a user submits.
FlowApiKeys == {"key_1"}

\* The answers to the test request of _validate_api_key: a status, a
\* time-out of requests, or an exception that is no RequestException.
FlowTestAnswers ==
    {Answer("", status, FALSE, NoDocument) :
        status \in {HTTP_OK, HTTP_BAD_REQUEST, HTTP_UNAUTHORIZED, HTTP_FORBIDDEN,
                    HTTP_SERVER_ERROR}}
    \cup {Answer("Timeout", 0, FALSE, NoDocument), Answer("RuntimeError", 0, FALSE, NoDocument)}

\* A validation that takes a 403 for an accepted key as well.
validate_api_key_accepting_forbidden(a) ==
    a.exc = "" /\ a.status \in {HTTP_OK, HTTP_BAD_REQUEST, HTTP_FORBIDDEN}

\* _validate_api_key (lines 100-123) for answer a to its request, when it
\* returns: True for 200 and 400, False for every other status and for
\* the exceptions of requests.
validate_api_key(a) == a.exc = "" /\ a.status \in {HTTP_OK, HTTP_BAD_REQUEST}

\* _validate_api_key raises: an exception that is no RequestException.
validate_api_key_raises(a) == a.exc \notin {"", "Timeout"}

\* async_step_user with user input (lines 73-98): the key goes to the
\* flow when the validation accepts it, and the form is shown again with an
\* error when it rejects it or raises.
async_step_user(api_key, a) ==
    /\ flow.step = "user"
    /\ flow' = IF validate_api_key_raises(a)
               THEN [flow EXCEPT !.test_answer = a,
                                 !.errors = DictSet(EmptyDict, "base", "cannot_connect")]
               ELSE IF validate_api_key(a)
                    THEN [flow EXCEPT !.test_answer = a,
                                      !.errors = EmptyDict,
                                      !.api_key = api_key,
                                      !.step = "location"]
                    ELSE [flow EXCEPT !.test_answer = a,
                                      !.errors = DictSet(EmptyDict, "base", "invalid_api_key")]
    /\ UNCHANGED <<now, coordinator_vars, hass_data, entry_state, services>>

\* The coordinates a user submits, in whole degrees: the ends of the ranges
\* and the first values outside them.
FlowLatitudes == {0 - 91, 0 - 90, 90, 91}

FlowLongitudes == {0 - 181, 0 - 180, 180, 181}

\* The errors of async_step_location (lines 137-140).
LocationErrors(latitude, longitude) ==
    LET lat_errors == IF ~(0 - 90 <= latitude /\ latitude <= 90)
                      THEN DictSet(EmptyDict, "latitude", "invalid_latitude")
                      ELSE EmptyDict
    IN IF ~(0 - 180 <= longitude /\ longitude <= 180)
       THEN DictSet(lat_errors, "longitude", "invalid_longitude")
       ELSE lat_errors

\* async_step_location with user input (lines 131-151).
async_step_location(latitude, longitude) ==
    /\ flow.step = "location"
    /\ flow' = IF LocationErrors(latitude, longitude) = EmptyDict
               THEN [flow EXCEPT !.errors = EmptyDict,
                                 !.user_data = [location |-> "home",
                                                latitude |-> latitude,
                                                longitude |-> longitude,
                                                unit_system |-> "METRIC"],
                                 !.step = "forecasts"]
               ELSE [flow EXCEPT !.errors = LocationErrors(latitude, longitude)]
    /\ UNCHANGED <<now, coordinator_vars, hass_data, entry_state, services>>

\* async_step_forecasts with user input (lines 177-186).
async_step_forecasts(include_hourly, include_alerts) ==
    /\ flow.step = "forecasts"
    /\ flow' = [flow EXCEPT !.step = "intervals",
                            !.forecast_data = ForecastData(include_hourly, include_alerts)]
    /\ UNCHANGED <<now, coordinator_vars, hass_data, entry_state, services>>

\* async_step_intervals with user input (lines 207-210), and the
\* confirmation form async_step_confirm then shows (lines 309-381).
async_step_intervals(user_input) ==
    /\ flow.step = "intervals"
    /\ flow' = [flow EXCEPT !.step = "confirm",
                            !.interval_data = user_input,
                            !.usage = UsageSummary(flow.forecast_data, user_input)]
    /\ UNCHANGED <<now, coordinator_vars, hass_data, entry_state, services>>

\* async_step_confirm with user input (lines 294-307): the entry is created.
async_step_confirm ==
    /\ flow.step = "confirm"
    /\ flow' = [flow EXCEPT !.step = "created"]
    /\ UNCHANGED <<now, coordinator_vars, hass_data, entry_state, services>>

\* A flow at its first step; no entry is set up and no coordinator exists
\* yet.
InitFlow ==
    /\ night_start = DEFAULT_NIGHT_START
    /\ night_end = DEFAULT_NIGHT_END
    /\ intervals = DefaultPolicy
    /\ now = HM(21, 59)
    /\ last_update = [e \in Endpoints |-> None]
    /\ endpoint_data = EmptyDict
    /\ pc = "idle"
    /\ endpoints_to_update = NoSelection
    /\ updated_data = EmptyDict
    /\ fetch_pos = 1
    /\ fetch_exc = ""
    /\ responses = NoResponses
    /\ night_mode = ""
    /\ result = NoResult
    /\ ticks_ok = FALSE
    /\ hass_data = <<>>
    /\ entry_state = [id \in EntryIds |-> "not_loaded"]
    /\ flow = FlowAtUser
    /\ services = NoServices
    /\ token = NoToken
    /\ answered_at = NeverAnswered

NextFlow ==
    \/ \E api_key \in FlowApiKeys : \E a \in FlowTestAnswers : async_step_user(api_key, a)
    \/ \E latitude \in FlowLatitudes : \E longitude \in FlowLongitudes :
          async_step_location(latitude, longitude)
    \/ \E include_hourly, include_alerts \in BOOLEAN :
          async_step_forecasts(include_hourly, include_alerts)
    \/ /\ flow.step = "intervals"
       /\ \E user_input \in [SchemaEndpoints(flow.forecast_data) -> FlowIntervalPairs] :
             async_step_intervals(user_input)
    \/ async_step_confirm

SpecFlow == InitFlow /\ [][NextFlow]_vars

----------------------------------------------------------------------------
(* Ticks that keep occurring, next to an endpoint that always fails        *)

\* The API while the alerts endpoint is down: every request to it times out
\* or is answered 500, every other request is answered 200 with an object.
LiveAnswers(e) ==
    IF e = ENDPOINT_ALERTS
    THEN {a \in Answers(e) : a.exc # "" \/ a.status = HTTP_SERVER_ERROR}
    ELSE {a \in Answers(e) : a.exc = "" /\ a.status = HTTP_OK /\ a.is_object}

\* A coordinator as constructed, with a night window that parses.
InitLive == Init /\ ~is_night_time_raises

fetch_weather_data_live ==
    \E e \in Endpoints : \E a \in LiveAnswers(e) :
       fetch_weather_data_block(e, a) /\ UNCHANGED answered_at

NextLive ==
    \/ async_update_data_select
    \/ fetch_weather_data_live
    \/ async_update_data_resume
    \/ Advance

\* The scheduler of the DataUpdateCoordinator runs _async_update_data every
\* update_interval (line 109), the executor job of line 170 runs to its end,
\* and the awaiting tick is resumed: each of the three is taken when it
\* stays enabled.
SpecLive ==
    /\ InitLive
    /\ [][NextLive]_vars
    /\ WF_vars(async_update_data_select)
    /\ WF_vars(fetch_weather_data_live)
    /\ WF_vars(async_update_data_resume)

----------------------------------------------------------------------------
(* Properties                                                              *)

\* The request to e of the running or last tick was answered 200 with an object.
ResponseOk(e) ==
    responses[e].exc = "" /\ responses[e].status = HTTP_OK /\ responses[e].is_object

\* ... failed transiently: a timeout or a 5xx.
ResponseTransient(e) ==
    \/ responses[e].exc = "Timeout"
    \/ responses[e].exc = "" /\ responses[e].status = HTTP_SERVER_ERROR

\* ... was answered 401 or 403.
ResponseCredential(e) ==
    responses[e].exc = "" /\ responses[e].status \in {HTTP_UNAUTHORIZED, HTTP_FORBIDDEN}

\* ... was answered 404.
ResponseNotFound(e) == responses[e].exc = "" /\ responses[e].status = HTTP_NOT_FOUND

Position(e) == CHOOSE i \in 1..Len(EndpointOrder) : EndpointOrder[i] = e

\* The step that resumes a tick after its fetch.
ResumeStep == pc = "resume" /\ pc' = "idle"

\* The step that ends a tick whose fetch raised, or whose selection raised.
RaisedStep ==
    \/ ResumeStep /\ fetch_exc # ""
    \/ pc = "idle" /\ pc' = "idle" /\ now' = now /\ fetch_exc' = "ValueError"

\* A selection has run since construction.
SelectRan == pc # "idle" \/ result.kind # "none"

\* C1: in a tick with a non-empty cache where CURRENT and ALERTS are due, the
\* CURRENT request succeeds and the ALERTS request fails transiently, the
\* tick returns a snapshot with the fresh CURRENT payload and the previous
\* ALERTS payload, stamps CURRENT's last_update and leaves ALERTS' unchanged.
C1_PartialFailureIsolation ==
    [][(/\ ResumeStep
        /\ DOMAIN endpoint_data # {}
        /\ endpoints_to_update[ENDPOINT_CURRENT]
        /\ endpoints_to_update[ENDPOINT_ALERTS]
        /\ ResponseOk(ENDPOINT_CURRENT)
        /\ ResponseTransient(ENDPOINT_ALERTS))
       => (/\ result'.kind = "returned"
           /\ result'.data["current"] = Payload(ENDPOINT_CURRENT, responses[ENDPOINT_CURRENT])
           /\ result'.data["alerts"] = endpoint_data["alerts"]
           /\ last_update'[ENDPOINT_CURRENT] = now
           /\ last_update'[ENDPOINT_ALERTS] = last_update[ENDPOINT_ALERTS])]_vars

\* C2: a tick that starts with a non-empty cache and raises returns the
\* cache as it was before the tick, and changes neither the cache nor any
\* last_update.
C2_StaleCacheFallback ==
    [][(RaisedStep /\ DOMAIN endpoint_data # {})
       => (/\ result' = Returned(endpoint_data)
           /\ endpoint_data' = endpoint_data
           /\ last_update' = last_update)]_vars

\* A tick on a non-empty cache has ended in the fallback after a timeout.
C2_Witness ==
    /\ pc = "idle"
    /\ fetch_exc = "UpdateFailed"
    /\ \E e \in Endpoints : responses[e].exc = "Timeout"
    /\ result = Returned(endpoint_data)
    /\ DOMAIN endpoint_data # {}

\* C3: a tick that starts with an empty cache and raises ends in
\* UpdateFailed, the cache stays empty and every last_update stays None.
C3_ColdStartFailure ==
    [][(RaisedStep /\ DOMAIN endpoint_data = {})
       => (/\ result' = RaisedUpdateFailed
           /\ endpoint_data' = EmptyDict
           /\ \A e \in Endpoints : last_update'[e] = None)]_vars

\* A first tick has ended in UpdateFailed after a request failed.
C3_Witness ==
    /\ pc = "idle"
    /\ result = RaisedUpdateFailed
    /\ fetch_exc = "UpdateFailed"
    /\ \E e \in Endpoints : responses[e] # NoRequest
    /\ endpoint_data = EmptyDict
    /\ \A e \in Endpoints : last_update[e] = None

\* C4: in a tick on an empty cache where the request of one due endpoint
\* succeeds and that of another fails transiently, the tick returns a
\* snapshot that holds the payload of every endpoint that succeeded.
C4_ColdPartialFailure ==
    [][(/\ ResumeStep
        /\ DOMAIN endpoint_data = {}
        /\ \E e \in Endpoints : ResponseOk(e)
        /\ \E e \in Endpoints : ResponseTransient(e))
       => (/\ result'.kind = "returned"
           /\ \A e \in Endpoints :
                 ResponseOk(e) =>
                    /\ CacheKey(e) \in DOMAIN result'.data
                    /\ result'.data[CacheKey(e)] = Payload(e, responses[e]))]_vars

\* C5: a tick whose ALERTS request is answered 404 (every due endpoint before
\* it having succeeded) ends without error with alerts = [] in the snapshot
\* and in the cache, and stamps ALERTS' last_update.
C5_AlertsNotFound ==
    [][(ResumeStep /\ ResponseNotFound(ENDPOINT_ALERTS))
       => (/\ fetch_exc = ""
           /\ result'.kind = "returned"
           /\ result'.data["alerts"] = <<>>
           /\ endpoint_data'["alerts"] = <<>>
           /\ last_update'[ENDPOINT_ALERTS] = now)]_vars

\* A tick on a warm cache (DAILY was not due) has ended with the 404 of the
\* alerts endpoint turned into an empty list.
C5_Witness ==
    /\ pc = "idle"
    /\ ResponseNotFound(ENDPOINT_ALERTS)
    /\ ~endpoints_to_update[ENDPOINT_DAILY]
    /\ result.kind = "returned"
    /\ result.data["alerts"] = <<>>
    /\ last_update[ENDPOINT_ALERTS] = now

\* C6: after a 401 or 403 no further endpoint is requested in the tick, the
\* tick changes neither the cache nor any last_update, and it ends in
\* UpdateFailed on an empty cache and with the stale cache otherwise.
C6_FatalCredentialFailure ==
    [][(\E e \in Endpoints : ResponseCredential(e))
       => (/\ pc # "executor"
           /\ \A e, f \in Endpoints :
                 (ResponseCredential(e) /\ Position(f) > Position(e)) => responses[f] = NoRequest
           /\ ResumeStep =>
                 /\ endpoint_data' = endpoint_data
                 /\ last_update' = last_update
                 /\ result' = IF DOMAIN endpoint_data = {}
                              THEN RaisedUpdateFailed
                              ELSE Returned(endpoint_data))]_vars

\* A tick on a non-empty cache has ended with the stale cache after the
\* daily forecast request was answered 403.
C6_Witness ==
    /\ pc = "idle"
    /\ responses[ENDPOINT_DAILY].status = HTTP_FORBIDDEN
    /\ responses[ENDPOINT_HOURLY] = NoRequest
    /\ endpoints_to_update[ENDPOINT_HOURLY]
    /\ result = Returned(endpoint_data)
    /\ DOMAIN endpoint_data # {}

\* C7: once a tick has completed successfully, no tick ends in UpdateFailed
\* and every tick returns a non-empty snapshot.
C7_AvailabilityAfterFirstSuccess ==
    ticks_ok =>
        /\ result.kind # "raised"
        /\ pc = "idle" => result.kind = "returned" /\ DOMAIN result.data # {}

\* After a successful tick, a tick has failed on a credential error and
\* still returned a snapshot.
C7_Witness ==
    /\ ticks_ok
    /\ pc = "idle"
    /\ fetch_exc = "UpdateFailed"
    /\ \E e \in Endpoints : ResponseCredential(e)
    /\ result.kind = "returned"
    /\ DOMAIN result.data # {}

\* C8: while an endpoint's last_update is None, _should_update_endpoint
\* returns True for it without raising, whatever the intervals and the night
\* window (parsable or not), and every selection that has run has selected it.
C8_FirstRunForcesFetch ==
    \A e \in Endpoints :
        last_update[e] = None =>
            /\ ~should_update_endpoint_raises(e)
            /\ should_update_endpoint(e)
            /\ SelectRan => endpoints_to_update[e]

\* The first selection of a coordinator whose night window does not parse
\* has selected all four endpoints.
C8_Witness ==
    /\ is_night_time_raises
    /\ SelectRan
    /\ \A e \in Endpoints : last_update[e] = None /\ endpoints_to_update[e]

\* C9: a selection that does not raise selects an endpoint with last_update
\* = T iff now - T is at least the endpoint's night interval when the time
\* of the tick is classified night, and at least its day interval otherwise.
C9_StalenessRule ==
    (SelectRan /\ fetch_exc # "ValueError") =>
        \A e \in Endpoints :
            last_update[e] # None =>
                (endpoints_to_update[e] <=>
                    (now - last_update[e]
                        >= (IF is_night_time THEN intervals[e].night ELSE intervals[e].day)
                            * SecondsPerMinute))

\* A tick at 22:00 with the default window and intervals, 15 minutes after a
\* fetch at 21:45: the night interval of 30 minutes applies and CURRENT is
\* not selected, though T was in the day and the day interval has passed.
C9_Witness ==
    /\ SelectRan
    /\ night_start = T_22_00 /\ night_end = T_06_00
    /\ intervals = DefaultPolicy
    /\ TimeOfDay(now) = HM(22, 0)
    /\ last_update[ENDPOINT_CURRENT] = now - 15 * SecondsPerMinute
    /\ ~endpoints_to_update[ENDPOINT_CURRENT]
    /\ result.kind = "returned"

\* C10: for a window with start <= end, the selection classifies the time of
\* the tick as night iff start <= now < end (never when start = end).
C10_SameDayWindow ==
    (pc = "executor" /\ ParsedTime(night_start) <= ParsedTime(night_end)) =>
        ((night_mode = "True") <=>
            (/\ ParsedTime(night_start) <= TimeOfDay(now)
             /\ TimeOfDay(now) < ParsedTime(night_end)))

\* C11: with a night window whose start is later than its end, the selection
\* classifies the time of day t of the tick as night iff t >= start or
\* t < end; with 22:00-06:00, 23:30, 05:00 and 22:00 are night, 12:00 and
\* 06:00 are day.
C11_MidnightCrossingWindow ==
    (pc = "executor" /\ ParsedTime(night_start) > ParsedTime(night_end))
    => /\ night_mode = "True" <=>
              \/ TimeOfDay(now) >= ParsedTime(night_start)
              \/ TimeOfDay(now) < ParsedTime(night_end)
       /\ (night_start = T_22_00 /\ night_end = T_06_00)
          => /\ TimeOfDay(now) \in {HM(23, 30), HM(5, 0), HM(22, 0)} => night_mode = "True"
             /\ TimeOfDay(now) \in {HM(12, 0), HM(6, 0)} => night_mode = "False"

\* A tick at 05:00 with the window 22:00-06:00 was classified as night.
C11_Witness ==
    /\ pc = "executor"
    /\ night_start = T_22_00
    /\ night_end = T_06_00
    /\ TimeOfDay(now) = HM(5, 0)
    /\ night_mode = "True"

\* The classification of time of day t by the default window 22:00-06:00.
default_night_at(t) ==
    t >= ParsedTime(DEFAULT_NIGHT_START) \/ t < ParsedTime(DEFAULT_NIGHT_END)

\* C12: when night_start or night_end does not parse as a time, the tick
\* classifies day and night with the default window 22:00-06:00 and goes
\* on: a first tick, in which all four endpoints are due, fetches them.
C12_MalformedWindowFallback ==
    (is_night_time_raises /\ SelectRan)
    => /\ fetch_exc # "ValueError"
       /\ result.kind # "raised"
       /\ pc = "executor"
       /\ night_mode = IF default_night_at(TimeOfDay(now)) THEN "True" ELSE "False"

\* A step that runs the staleness selection of one tick.
SelectStep == pc = "idle" /\ UNCHANGED <<now, config, integration>>

\* No endpoint is due by the staleness rule: each was fetched before and
\* less than its interval for the current time of day has passed.
NothingDue ==
    /\ ~is_night_time_raises
    /\ \A e \in Endpoints :
          /\ last_update[e] # None
          /\ now - last_update[e] < interval_minutes(e) * SecondsPerMinute

\* C13: a tick in which no endpoint is due issues no request, returns a
\* snapshot equal to the cache before the tick, and leaves the cache and
\* every last_update stamp unchanged.
C13_NothingDueTick ==
    [][(SelectStep /\ NothingDue)
       => /\ pc' = "idle"
          /\ responses' = NoResponses
          /\ result' = Returned(endpoint_data)
          /\ UNCHANGED <<endpoint_data, last_update>>]_vars

\* A tick found nothing due and returned the cache without a request.
C13_Witness ==
    /\ pc = "idle"
    /\ ticks_ok
    /\ fetch_exc = ""
    /\ responses = NoResponses
    /\ endpoints_to_update = NoSelection
    /\ result = Returned(endpoint_data)
    /\ NothingDue

\* The cache slot of endpoint e is the same before and after the step.
SlotKept(e) ==
    IF CacheKey(e) \in DOMAIN endpoint_data
    THEN CacheKey(e) \in DOMAIN endpoint_data'
         /\ endpoint_data'[CacheKey(e)] = endpoint_data[CacheKey(e)]
    ELSE CacheKey(e) \notin DOMAIN endpoint_data'

\* C14: in every step, the last_update stamp of an endpoint changes only
\* together with its cache slot taking the payload fetched for it in this
\* tick, and a slot whose stamp stays is not overwritten; an endpoint that
\* was not due, or whose tick failed, keeps both.
C14_ReconciliationFrame ==
    [][\A e \in Endpoints :
          /\ last_update'[e] # last_update[e]
             => /\ ResumeStep
                /\ responses[e] # NoRequest
                /\ BlockException(e, responses[e]) = ""
                /\ CacheKey(e) \in DOMAIN endpoint_data'
                /\ endpoint_data'[CacheKey(e)] = BlockPayload(e, responses[e])
          /\ last_update'[e] = last_update[e] => SlotKept(e)
          /\ (ResumeStep /\ (~endpoints_to_update[e] \/ fetch_exc # ""))
             => (last_update'[e] = last_update[e] /\ SlotKept(e))]_vars

\* A tick refreshed one endpoint and left another, fetched earlier, alone.
C14_Witness ==
    /\ pc = "idle"
    /\ fetch_exc = ""
    /\ result.kind = "returned"
    /\ \E e1, e2 \in Endpoints :
          /\ endpoints_to_update[e1]
          /\ ~endpoints_to_update[e2]
          /\ ResponseOk(e1)
          /\ last_update[e2] # None
          /\ last_update[e1] > last_update[e2]

\* C17: the cache and the last_update stamps change only in the one step
\* that resumes a successful tick, which writes every fetched payload and
\* every stamp together; while the tick is in the executor or waits to be
\* resumed, both keep their values from before the tick.
C17_AtomicEndOfTick ==
    [][/\ (endpoint_data' # endpoint_data \/ last_update' # last_update)
          => /\ ResumeStep
             /\ fetch_exc = ""
             /\ \A e \in Endpoints :
                   endpoints_to_update[e]
                   => /\ last_update'[e] = now
                      /\ CacheKey(e) \in DOMAIN endpoint_data'
                      /\ endpoint_data'[CacheKey(e)] = updated_data[CacheKey(e)]
       /\ (pc # "idle" /\ ~ResumeStep) => UNCHANGED <<endpoint_data, last_update>>]_vars

\* A tick has fetched a payload that differs from the cached one and waits
\* to be resumed: the cache and the stamp are still the old ones.
C17_Witness ==
    /\ pc = "resume"
    /\ fetch_exc = ""
    /\ ticks_ok
    /\ \E e \in Endpoints :
          /\ CacheKey(e) \in DOMAIN updated_data
          /\ CacheKey(e) \in DOMAIN endpoint_data
          /\ updated_data[CacheKey(e)] # endpoint_data[CacheKey(e)]
          /\ last_update[e] # None
          /\ last_update[e] < now

\* The interval that applied to endpoint e in the last tick that reached the
\* executor, by the classification that tick logged.
interval_minutes_of_last_tick(e) ==
    intervals[e][IF night_mode = "True" THEN "night" ELSE "day"]

\* C15 as stated: after a tick that failed, every endpoint the failed tick
\* had selected is selected again by the next tick, whatever the intervals
\* and whatever side of a night window boundary the two ticks are on.
C15_RetryByReselection ==
    [][\A e \in Endpoints :
          (SelectStep /\ fetch_exc # "" /\ endpoints_to_update[e])
          => endpoints_to_update'[e]]_vars

\* C15 as it holds: after a tick that failed, an endpoint the failed tick
\* had selected is selected again by the next tick when it was never
\* fetched, or when the interval for the time of day of the next tick is no
\* longer than the one that applied in the failed tick.
C15_RetryWithinInterval ==
    [][\A e \in Endpoints :
          (/\ SelectStep
           /\ fetch_exc # ""
           /\ endpoints_to_update[e]
           /\ \/ last_update[e] = None
              \/ /\ ~is_night_time_raises
                 /\ interval_minutes(e) <= interval_minutes_of_last_tick(e))
          => endpoints_to_update'[e]]_vars

\* A tick at night failed with a cache in place, the clock has passed the
\* end of the night window, and an endpoint the failed tick had selected is
\* due again.
C15_Witness ==
    /\ pc = "idle"
    /\ fetch_exc = "UpdateFailed"
    /\ ticks_ok
    /\ night_mode = "True"
    /\ ~is_night_time
    /\ \E e \in Endpoints :
          /\ endpoints_to_update[e]
          /\ last_update[e] # None
          /\ interval_minutes(e) <= interval_minutes_of_last_tick(e)
          /\ should_update_endpoint(e)

\* C16 as stated: an options update of a loaded entry changes the intervals
\* and the night window of the coordinator that serves the entry and leaves
\* its cache and its last_update stamps as they were (so that a tick that
\* fails right after still returns the last-known snapshot).
C16_ReconfigurationKeepsCache ==
    [][(entry_state[Entry] = "loaded" /\ config' # config)
       => /\ endpoint_data' = endpoint_data
          /\ last_update' = last_update]_vars

\* The entry's setup has passed its first refresh and the entry was not
\* unloaded since.
SetUp(id) == entry_state[id] \in {"forwarding", "loaded", "setup_error", "failed_unload"}

\* C18: an entry id is a key of hass.data[DOMAIN] iff the entry's setup has
\* completed its first refresh and the entry was not successfully unloaded
\* since; a setup whose first refresh fails inserts nothing, and an unload
\* whose platform unload fails removes nothing.
C18_RegistryLifecycle ==
    [][/\ \A id \in EntryIds : (id \in Keys(hass_data) <=> SetUp(id))
       /\ \A id \in EntryIds : (id \in Keys(hass_data') <=> SetUp(id)')
       /\ \A id \in EntryIds :
             (entry_state[id] = "first_refresh" /\ entry_state'[id] = "setup_retry")
             => hass_data' = hass_data
       /\ \A id \in EntryIds :
             (entry_state[id] = "loaded" /\ entry_state'[id] = "failed_unload")
             => hass_data' = hass_data]_vars

\* Entry was set up with a successful first tick and then unloaded, and is
\* out of the registry; the other entry is still in it after an unload that
\* failed.
C18_Witness ==
    /\ ticks_ok
    /\ entry_state[Entry] = "not_loaded"
    /\ \E id \in EntryIds \ {Entry} :
          /\ entry_state[id] = "failed_unload"
          /\ hass_data = <<id>>

\* C19: for the default intervals (current 15/30, daily 30/60, hourly 20/60,
\* alerts 15/30), with hourly forecasts and alerts enabled, the estimate of
\* the confirmation is 2,400 calls for current, 1,200 for daily, 1,680 for
\* hourly and 2,400 for alerts, 7,680 in total, which is within the free
\* tier of 10,000 calls.
C19_DefaultApiBudget ==
    (flow.step \in {"confirm", "created"} /\ flow.interval_data = DefaultPolicy)
    => /\ flow.usage.calls[ENDPOINT_CURRENT] = 2400
       /\ flow.usage.calls[ENDPOINT_DAILY] = 1200
       /\ flow.usage.calls[ENDPOINT_HOURLY] = 1680
       /\ flow.usage.calls[ENDPOINT_ALERTS] = 2400
       /\ flow.usage.total_calls = 7680
       /\ flow.usage.total_calls <= 10000
       /\ flow.usage.within_free_tier

\* The confirmation was shown for the default intervals of all four endpoints.
C19_Witness ==
    /\ flow.step = "confirm"
    /\ flow.forecast_data = ForecastData(TRUE, TRUE)
    /\ flow.interval_data = DefaultPolicy
    /\ flow.usage.total_calls = 7680

\* C20: when ticks keep occurring and every request to the current
\* conditions endpoint succeeds, that endpoint is refreshed again and again
\* even though every request to the alerts endpoint fails; so, from
\* construction on, its first refresh comes: eventually its cache slot is
\* written and its last_update is set.
C20_LivenessUnderFailingNeighbour ==
    <>(/\ CacheKey(ENDPOINT_CURRENT) \in DOMAIN endpoint_data
       /\ last_update[ENDPOINT_CURRENT] # None)

\* The state of endpoint e in the state machine of its stamp, for a stamp
\* and a time of the tick: never fetched while the stamp is None, else stale
\* when the staleness check finds it due at that time, else fresh.
EndpointStateAt(e, stamp, t) ==
    IF stamp = None
    THEN "NEVER_FETCHED"
    ELSE IF t - stamp >= intervals[e][IF night_at(TimeOfDay(t)) THEN "night" ELSE "day"]
                             * SecondsPerMinute
         THEN "STALE"
         ELSE "FRESH"

\* The state of endpoint e before and after a step of a coordinator (whose
\* night window and intervals no step changes).
EndpointState(e) == EndpointStateAt(e, last_update[e], now)

NextEndpointState(e) == EndpointStateAt(e, last_update'[e], now')

\* The interval of endpoint e at the time of day of t, in minutes.
interval_minutes_at(e, t) == intervals[e][IF night_at(TimeOfDay(t)) THEN "night" ELSE "day"]

\* The step that ends a tick in which endpoint e was selected, requested and
\* answered, and whose fetch returned.
FetchedStep(e) ==
    /\ ResumeStep
    /\ fetch_exc = ""
    /\ endpoints_to_update[e]
    /\ responses[e] # NoRequest
    /\ BlockException(e, responses[e]) = ""

\* The step that ends a tick in which endpoint e was selected and whose
\* fetch raised.
FailedStep(e) == ResumeStep /\ fetch_exc # "" /\ endpoints_to_update[e]

\* C21 as stated: an endpoint leaves NEVER_FETCHED only for FRESH and only
\* by a successful fetch of it, goes from FRESH to STALE only while time
\* passes, goes from STALE to FRESH only by a successful fetch of it, stays
\* STALE with its payload and its stamp when a refresh of it fails, and
\* never returns to NEVER_FETCHED.
C21_EndpointStateMachine ==
    [][\A e \in Endpoints :
          /\ (EndpointState(e) = "NEVER_FETCHED" /\ NextEndpointState(e) # "NEVER_FETCHED")
             => (NextEndpointState(e) = "FRESH" /\ FetchedStep(e))
          /\ (EndpointState(e) = "FRESH" /\ NextEndpointState(e) = "STALE") => now' > now
          /\ (EndpointState(e) = "STALE" /\ NextEndpointState(e) = "FRESH") => FetchedStep(e)
          /\ (EndpointState(e) = "STALE" /\ FailedStep(e))
             => /\ NextEndpointState(e) = "STALE"
                /\ endpoint_data'[CacheKey(e)] = endpoint_data[CacheKey(e)]
                /\ last_update'[e] = last_update[e]
          /\ NextEndpointState(e) = "NEVER_FETCHED" => EndpointState(e) = "NEVER_FETCHED"]_vars

\* C21 as it holds: the same state machine, in which a STALE endpoint also
\* becomes FRESH without a fetch when time passes into the part of the day
\* whose interval for it is longer.
C21_EndpointStateMachineByTimeOfDay ==
    [][\A e \in Endpoints :
          /\ (EndpointState(e) = "NEVER_FETCHED" /\ NextEndpointState(e) # "NEVER_FETCHED")
             => (NextEndpointState(e) = "FRESH" /\ FetchedStep(e))
          /\ (EndpointState(e) = "FRESH" /\ NextEndpointState(e) = "STALE") => now' > now
          /\ (EndpointState(e) = "STALE" /\ NextEndpointState(e) = "FRESH")
             => \/ FetchedStep(e)
                \/ /\ now' > now
                   /\ interval_minutes_at(e, now') > interval_minutes_at(e, now)
                   /\ UNCHANGED <<last_update, endpoint_data>>
          /\ (EndpointState(e) = "STALE" /\ FailedStep(e))
             => /\ NextEndpointState(e) = "STALE"
                /\ endpoint_data'[CacheKey(e)] = endpoint_data[CacheKey(e)]
                /\ last_update'[e] = last_update[e]
          /\ NextEndpointState(e) = "NEVER_FETCHED" => EndpointState(e) = "NEVER_FETCHED"]_vars

\* A refresh of a STALE endpoint has failed after a successful tick: the
\* endpoint is still STALE, with its stamp from the earlier tick.
C21_Witness ==
    /\ pc = "idle"
    /\ ticks_ok
    /\ fetch_exc = "UpdateFailed"
    /\ \E e \in Endpoints :
          /\ endpoints_to_update[e]
          /\ EndpointState(e) = "STALE"
          /\ last_update[e] < now
          /\ CacheKey(e) \in DOMAIN endpoint_data

\* C22: every step of the fetch issues one request, to an endpoint that the
\* selection of the tick found due and that the tick has not requested yet;
\* no other step issues a request, so an endpoint that was not due is not
\* requested in the tick, whatever else is due.
C22_OnlyDueEndpointsFetched ==
    [][/\ pc = "executor"
          => \E e \in Endpoints :
                /\ responses[e] = NoRequest
                /\ responses'[e] # NoRequest
                /\ endpoints_to_update[e]
                /\ should_update_endpoint(e)
                /\ \A f \in Endpoints \ {e} : responses'[f] = responses[f]
       /\ pc # "executor" => \A e \in Endpoints : responses'[e] \in {responses[e], NoRequest}
       /\ pc # "idle" => endpoints_to_update' = endpoints_to_update]_vars

\* A tick on a warm cache has ended well in which one endpoint was due and
\* requested and another was not due and was not requested.
C22_Witness ==
    /\ pc = "idle"
    /\ ticks_ok
    /\ fetch_exc = ""
    /\ result.kind = "returned"
    /\ \E e, f \in Endpoints :
          /\ endpoints_to_update[e]
          /\ responses[e] # NoRequest
          /\ ~endpoints_to_update[f]
          /\ last_update[f] # None
          /\ responses[f] = NoRequest

----------------------------------------------------------------------------
(* The weather_alert binary sensor (binary_sensor.py)                      *)

\* coordinator.data: what the last tick that returned has returned, None
\* (here the empty dict, as falsy as None) while none has.  Every return of
\* _async_update_data hands out self.endpoint_data itself (lines 159, 182,
\* 188), and the first tick returns only by line 182.
coordinator_data == IF ticks_ok THEN endpoint_data ELSE EmptyDict

\* has_alerts (lines 38-40): bool(data.get("weatherAlerts", [])).
has_alerts(data) == Get(data, "weatherAlerts") # <<>>

\* GoogleWeatherBinarySensor.is_on (lines 228-233) for the weather_alert
\* sensor, whose value_fn is has_alerts.
is_on == DOMAIN coordinator_data # {} /\ has_alerts(coordinator_data)

\* C23: the weather_alert binary sensor is on iff the snapshot of the
\* coordinator holds at least one alert in its alerts slot, and off when
\* that list is empty or the snapshot is empty.
C23_AlertSensorReflectsSnapshot ==
    is_on <=> /\ CacheKey(ENDPOINT_ALERTS) \in DOMAIN coordinator_data
              /\ coordinator_data[CacheKey(ENDPOINT_ALERTS)] # <<>>

\* C28: in every state of a coordinator, either the cache is empty and no
\* endpoint has a last_update, or every endpoint has a last_update and the
\* cache holds a slot for each of current, daily_forecast, hourly_forecast
\* and alerts.
C28_AllOrNothingCache ==
    \/ /\ endpoint_data = EmptyDict
       /\ \A e \in Endpoints : last_update[e] = None
    \/ /\ \A e \in Endpoints : last_update[e] # None
       /\ {CacheKey(e) : e \in Endpoints} \subseteq DOMAIN endpoint_data

\* A first tick has failed after some of its requests were answered well:
\* nothing of it was stored or stamped.
C28_Witness ==
    /\ pc = "idle"
    /\ fetch_exc = "UpdateFailed"
    /\ DOMAIN updated_data # {}
    /\ endpoint_data = EmptyDict
    /\ \A e \in Endpoints : last_update[e] = None

\* The larger of the two intervals of endpoint e, in minutes.
max_interval_minutes(e) ==
    IF intervals[e].day >= intervals[e].night THEN intervals[e].day ELSE intervals[e].night

\* C30: a selection that runs at least max(day interval, night interval)
\* minutes after the last_update of an endpoint selects that endpoint,
\* whatever the night window and the time of day of the tick.
C30_BoundedStaleness ==
    SelectRan =>
        \A e \in Endpoints :
            (/\ last_update[e] # None
             /\ now - last_update[e] >= max_interval_minutes(e) * SecondsPerMinute)
            => endpoints_to_update[e]

\* A tick exactly the larger interval after the last fetch, at a time of
\* day at which the larger interval applies, has selected the endpoint.
C30_Witness ==
    /\ SelectRan
    /\ \E e \in Endpoints :
          /\ last_update[e] # None
          /\ intervals[e].day # intervals[e].night
          /\ interval_minutes(e) = max_interval_minutes(e)
          /\ now - last_update[e] = max_interval_minutes(e) * SecondsPerMinute
          /\ endpoints_to_update[e]

----------------------------------------------------------------------------
(* The coordinator of the OAuth variant (src/coordinator.py)               *)

\* datetime.strptime(s, "%H:%M") raises ValueError: s is not one or two
\* digits of an hour up to 23, a colon, and one or two digits of a minute up
\* to 59.
strptime_raises(s) ==
    \/ Len(Split(s)) # 2
    \/ \E i \in 1..2 :
          \/ Len(Split(s)[i]) \notin 1..2
          \/ \E j \in 1..Len(Split(s)[i]) : ~IsDigit(Split(s)[i][j])
    \/ DigitsValue(Split(s)[1]) \notin 0..23
    \/ DigitsValue(Split(s)[2]) \notin 0..59

\* _is_night_time of src/coordinator.py (lines 117-132): a window that does
\* not parse is replaced by the default one, and a window is taken to cross
\* midnight when its start is later than its end.
oauth_is_night_time ==
    LET invalid == strptime_raises(night_start) \/ strptime_raises(night_end)
        start_time == ParsedTime(IF invalid THEN DEFAULT_NIGHT_START ELSE night_start)
        end_time == ParsedTime(IF invalid THEN DEFAULT_NIGHT_END ELSE night_end)
        t == TimeOfDay(now)
    IN IF start_time > end_time
       THEN t >= start_time \/ t < end_time
       ELSE start_time <= t /\ t < end_time

\* _should_update_endpoint of src/coordinator.py (lines 134-148).
oauth_should_update_endpoint(e) ==
    IF last_update[e] = None
    THEN TRUE
    ELSE (now - last_update[e])
            >= intervals[e][IF oauth_is_night_time THEN "night" ELSE "day"] * SecondsPerMinute

\* Lines 150-170 of _async_update_data, up to the await of
\* async_ensure_token_valid: the selection, which ends the tick when nothing
\* is due.
oauth_async_update_data_select ==
    /\ pc = "idle"
    /\ endpoints_to_update' = [e \in Endpoints |-> oauth_should_update_endpoint(e)]
    /\ updated_data' = EmptyDict
    /\ fetch_pos' = 1
    /\ fetch_exc' = ""
    /\ responses' = NoResponses
    /\ token' = NoToken
    /\ IF \A e \in Endpoints : ~oauth_should_update_endpoint(e)
       THEN /\ result' = Returned(endpoint_data)
            /\ pc' = "idle"
            /\ UNCHANGED night_mode
       ELSE /\ result' = NoResult
            /\ pc' = "token"
            /\ night_mode' = IF oauth_is_night_time THEN "True" ELSE "False"
    /\ UNCHANGED <<config, now, last_update, endpoint_data, ticks_ok, integration, answered_at>>

\* A tick that goes on to the fetch though async_ensure_token_valid raised.
oauth_async_ensure_token_valid_ignoring_failure(valid) ==
    /\ pc = "token"
    /\ token' = IF valid THEN "valid" ELSE "failed"
    /\ pc' = "executor"
    /\ UNCHANGED <<config, now, last_update, endpoint_data, endpoints_to_update, updated_data,
                   fetch_pos, fetch_exc, responses, night_mode, result, ticks_ok,
                   integration, answered_at>>

\* Lines 172-190: async_ensure_token_valid has returned (valid) or raised.
\* When it returned, the credentials are built from the token of the session
\* and the fetch is handed to the executor; when it raised, the except
\* clause of lines 201-207 ends the tick.
oauth_async_ensure_token_valid(valid) ==
    /\ pc = "token"
    /\ IF valid
       THEN /\ token' = "valid"
            /\ pc' = "executor"
            /\ UNCHANGED <<fetch_exc, result>>
       ELSE /\ token' = "failed"
            /\ fetch_exc' = "TokenError"
            /\ result' = except_handler
            /\ pc' = "idle"
    /\ UNCHANGED <<config, now, last_update, endpoint_data, endpoints_to_update, updated_data,
                   fetch_pos, responses, night_mode, ticks_ok, integration, answered_at>>

\* The exception one block of _fetch_weather_data of src/coordinator.py
\* leaves with for answer a, "" when the block completes (lines 237-295): no
\* status is tolerated, and only the current block takes a body that is no
\* object.  (credentials.expired of line 217 is False: the credentials are
\* built without an expiry.)
oauth_BlockException(e, a) ==
    IF a.exc # ""
    THEN "UpdateFailed"
    ELSE IF raise_for_status_raises(a.status)
         THEN "UpdateFailed"
         ELSE IF a.is_object \/ e = ENDPOINT_CURRENT THEN "" ELSE "AttributeError"

\* What a completing block stores: its payload under its key, and for the
\* daily block the time zone of the body as well (line 259).
oauth_BlockUpdate(e, a) ==
    LET stored == DictSet(updated_data, CacheKey(e), Payload(e, a))
    IN IF e = ENDPOINT_DAILY
       THEN DictSet(stored, "timezone",
                    IF "timeZone" \in DOMAIN a.doc THEN a.doc["timeZone"] ELSE EmptyDict)
       ELSE stored

\* One block of _fetch_weather_data of src/coordinator.py.
oauth_fetch_weather_data_block(e, a) ==
    /\ pc = "executor"
    /\ NextBlock(fetch_pos) # 0
    /\ e = EndpointOrder[NextBlock(fetch_pos)]
    /\ responses' = [responses EXCEPT ![e] = a]
    /\ fetch_exc' = oauth_BlockException(e, a)
    /\ IF oauth_BlockException(e, a) # ""
       THEN /\ pc' = "resume"
            /\ UNCHANGED <<updated_data, fetch_pos>>
       ELSE /\ updated_data' = oauth_BlockUpdate(e, a)
            /\ fetch_pos' = NextBlock(fetch_pos) + 1
            /\ pc' = IF NextBlock(NextBlock(fetch_pos) + 1) = 0 THEN "resume" ELSE "executor"
    /\ UNCHANGED <<config, now, last_update, endpoint_data, endpoints_to_update,
                   night_mode, result, ticks_ok, integration, token, answered_at>>

\* Lines 192-207 after the await of the executor job.
oauth_async_update_data_resume ==
    /\ pc = "resume"
    /\ pc' = "idle"
    /\ IF fetch_exc = ""
       THEN /\ endpoint_data' = DictUpdate(endpoint_data, updated_data)
            /\ last_update' = [e \in Endpoints |->
                                  IF endpoints_to_update[e] THEN now ELSE last_update[e]]
            /\ result' = Returned(endpoint_data')
            /\ ticks_ok' = TRUE
       ELSE /\ result' = except_handler
            /\ UNCHANGED <<endpoint_data, last_update, ticks_ok>>
    /\ UNCHANGED <<config, now, tick_locals, night_mode, integration, token, answered_at>>

\* The night windows of the OAuth coordinators that are followed: the
\* default one and one that does not parse.
OAuthWindows == {<<T_22_00, T_06_00>>, <<T_10pm, T_06_00>>}

\* The answers that are followed: a 200 with one document, a 401, a timeout.
OAuthAnswers(e) ==
    {a \in Answers(e) :
        \/ a.exc # ""
        \/ a.status = HTTP_UNAUTHORIZED
        \/ a.status = HTTP_OK /\ a.is_object /\ a.doc = CHOOSE d \in Documents(e) : TRUE}

\* An OAuth coordinator as constructed (lines 56-115).
InitOAuth ==
    /\ \E w \in OAuthWindows : night_start = w[1] /\ night_end = w[2] /\ now \in StartTimesOf(w)
    /\ intervals \in IntervalPolicies
    /\ last_update = [e \in Endpoints |-> None]
    /\ endpoint_data = EmptyDict
    /\ pc = "idle"
    /\ endpoints_to_update = NoSelection
    /\ updated_data = EmptyDict
    /\ fetch_pos = 1
    /\ fetch_exc = ""
    /\ responses = NoResponses
    /\ night_mode = ""
    /\ result = NoResult
    /\ ticks_ok = FALSE
    /\ token = NoToken
    /\ answered_at = NeverAnswered
    /\ CoordinatorAlone

NextOAuth ==
    \/ oauth_async_update_data_select
    \/ \E valid \in BOOLEAN : oauth_async_ensure_token_valid(valid)
    \/ \E e \in Endpoints : \E a \in OAuthAnswers(e) : oauth_fetch_weather_data_block(e, a)
    \/ oauth_async_update_data_resume
    \/ Advance

SpecOAuth == InitOAuth /\ [][NextOAuth]_vars

\* C24: in every tick of the OAuth coordinator a request is dispatched only
\* after async_ensure_token_valid has returned in that tick; a tick in which
\* nothing is due does not call it and requests nothing; and when it raises,
\* the tick requests nothing, changes neither the cache nor any stamp, and
\* ends with the cache when that is non-empty and in UpdateFailed otherwise.
C24_TokenBeforeDispatch ==
    [][/\ (\E e \in Endpoints : responses'[e] # NoRequest /\ responses[e] = NoRequest)
          => token = "valid" /\ token' = "valid"
       /\ pc' = "executor" => token' = "valid"
       /\ (pc = "idle" /\ now' = now /\ \A e \in Endpoints : ~endpoints_to_update'[e])
          => /\ token' = NoToken
             /\ pc' = "idle"
             /\ responses' = NoResponses
       /\ (pc = "token" /\ token' # "valid")
          => /\ token' = "failed"
             /\ pc' = "idle"
             /\ responses' = NoResponses
             /\ UNCHANGED <<endpoint_data, last_update>>
             /\ result' = IF DOMAIN endpoint_data # {}
                          THEN Returned(endpoint_data)
                          ELSE RaisedUpdateFailed]_vars

\* After a successful tick, a tick in which async_ensure_token_valid raised
\* has ended with the cache and without a request.
C24_Witness ==
    /\ token = "failed"
    /\ pc = "idle"
    /\ ticks_ok
    /\ responses = NoResponses
    /\ \E e \in Endpoints : endpoints_to_update[e]
    /\ result = Returned(endpoint_data)
    /\ DOMAIN endpoint_data # {}

----------------------------------------------------------------------------
(* The requests of a coordinator, with the time of each good answer        *)

\* One block of _fetch_weather_data, with the time of the request noted
\* when it was answered 200.
fetch_weather_data_logged(e, a) ==
    /\ fetch_weather_data_block(e, a)
    /\ answered_at' = IF a.exc = "" /\ a.status = HTTP_OK
                      THEN [answered_at EXCEPT ![e] = now]
                      ELSE answered_at

\* A coordinator as constructed, with a night window that parses.
InitRate == Init /\ ~is_night_time_raises

NextRate ==
    \/ async_update_data_select
    \/ \E e \in Endpoints : \E a \in EntryAnswers(e) : fetch_weather_data_logged(e, a)
    \/ async_update_data_resume
    \/ Advance

SpecRate == InitRate /\ [][NextRate]_vars

\* The smaller of the two intervals of endpoint e, in minutes.
min_interval_minutes(e) ==
    IF intervals[e].day <= intervals[e].night THEN intervals[e].day ELSE intervals[e].night

\* C29: a request to an endpoint that is answered 200 comes at least
\* min(day interval, night interval) minutes after the last request to that
\* endpoint that was answered 200, whatever the other requests are answered
\* (for requests of two ticks that are the update interval of one minute,
\* line 109, or more apart).
C29_RequestRateLimit ==
    [][\A e \in Endpoints :
          (/\ pc = "executor"
           /\ responses[e] = NoRequest
           /\ responses'[e].exc = ""
           /\ responses'[e].status = HTTP_OK
           /\ answered_at[e] # None
           /\ now - answered_at[e] >= SecondsPerMinute)
          => now - answered_at[e] >= min_interval_minutes(e) * SecondsPerMinute]_vars

\* C26: a get_forecast call for an entity whose entry has its coordinator
\* in the registry is served by that coordinator and returns its forecast;
\* the handler returns the empty forecast of "no coordinator found" only
\* when no coordinator of the registry owns the entity.
C26_ForecastRouting ==
    [][(services'.call # services.call)
       => /\ EntityOwner(services'.call.entity_id) \in Keys(hass_data)
             => /\ services'.call.kind = "returned"
                /\ services'.call.coordinator = EntityOwner(services'.call.entity_id)
          /\ services'.call = ServiceReturnedEmpty(services'.call.entity_id)
             => EntityOwner(services'.call.entity_id) \notin Keys(hass_data)]_vars

\* C27 as stated: the service is registered whenever the registry holds an
\* entry, and it is removed exactly by the successful unloads that leave the
\* registry empty.
C27_ServiceRegisteredWithRegistry ==
    [][/\ hass_data' # <<>> => services'.registered
       /\ (services.registered /\ ~services'.registered)
          <=> (hass_data # <<>> /\ hass_data' = <<>>)]_vars

\* C27 as it holds: the service is registered while an entry is loaded, and
\* only while the registry holds an entry; it is registered by the setup of
\* an entry that has set up its platforms (not yet when the entry goes into
\* the registry), and it is removed exactly by the successful unloads that
\* leave the registry empty, so that unloading one of several entries
\* leaves it registered.
C27_ServiceLifecycle ==
    [][/\ (\E id \in EntryIds : entry_state'[id] = "loaded") => services'.registered
       /\ services'.registered => hass_data' # <<>>
       /\ (~services.registered /\ services'.registered)
          => \E id \in EntryIds : entry_state[id] = "forwarding" /\ entry_state'[id] = "loaded"
       /\ (services.registered /\ ~services'.registered)
          <=> (hass_data # <<>> /\ hass_data' = <<>> /\ services.registered)
       /\ (hass_data # <<>> /\ hass_data' = <<>>)
          => \E id \in EntryIds :
                /\ entry_state[id] = "loaded"
                /\ entry_state'[id] \in {"not_loaded", "first_refresh"}]_vars

\* Two entries were loaded and the first of them has been unloaded: the
\* service is still registered for the other.
C27_Witness ==
    /\ entry_state[Entry] = "not_loaded"
    /\ ticks_ok
    /\ entry_state["entry_2"] = "loaded"
    /\ hass_data = <<"entry_2">>
    /\ services.registered

\* The place of a step in the order of the config flow.
StepRank(step) ==
    CASE step = "user" -> 1
      [] step = "location" -> 2
      [] step = "forecasts" -> 3
      [] step = "intervals" -> 4
      [] step = "confirm" -> 5
      [] step = "created" -> 6

\* C25: the config flow goes through its steps in order, one at a time: it
\* leaves the user step only with a key whose test request was answered 200
\* or 400, and the location step only with a latitude in -90..90 and a
\* longitude in -180..180; a rejected key or an out-of-range coordinate
\* leaves it on the step with an error and stores nothing; so the entry is
\* created only after the key, the location, the forecasts, the intervals
\* and the confirmation were submitted, in that order.
C25_ConfigFlowOrdering ==
    [][/\ StepRank(flow'.step) \in {StepRank(flow.step), StepRank(flow.step) + 1}
       /\ (flow.step = "user" /\ flow'.step = "location")
          => /\ flow'.test_answer.exc = ""
             /\ flow'.test_answer.status \in {200, 400}
             /\ flow'.api_key \in FlowApiKeys
       /\ (flow.step = "user" /\ flow'.step = "user")
          => /\ ~(flow'.test_answer.exc = "" /\ flow'.test_answer.status \in {200, 400})
             /\ "base" \in DOMAIN flow'.errors
             /\ flow'.api_key = NoApiKey
             /\ flow'.user_data = EmptyDict
       /\ (flow.step = "location" /\ flow'.step = "forecasts")
          => /\ flow'.user_data.latitude \in (0 - 90)..90
             /\ flow'.user_data.longitude \in (0 - 180)..180
       /\ (flow.step = "location" /\ flow'.step = "location")
          => /\ DOMAIN flow'.errors # {}
             /\ DOMAIN flow'.errors \subseteq {"latitude", "longitude"}
             /\ flow'.user_data = EmptyDict
             /\ flow'.api_key = flow.api_key
       /\ flow'.step = "created"
          => /\ flow.step = "confirm"
             /\ flow'.api_key \in FlowApiKeys
             /\ DOMAIN flow'.user_data # {}
             /\ DOMAIN flow'.forecast_data # {}
             /\ DOMAIN flow'.interval_data # {}]_vars

\* An entry was created by a flow whose key was accepted with a 400 and
\* whose location lies on the ends of both ranges.
C25_Witness ==
    /\ flow.step = "created"
    /\ flow.test_answer.status = 400
    /\ flow.user_data.latitude = 0 - 90
    /\ flow.user_data.longitude = 180

====
